---- MODULE Spec2Model ----
(***************************************************************************)
(* Model of src/utilities/lexicographicSortSchema.js.                      *)
(*                                                                         *)
(* Objects live in a heap (a sequence of records); an object's identity is *)
(* its index in the heap, so reference equality of the program is equality *)
(* of indices here.  An ObjMap is the sequence of its [key, value] entries *)
(* in insertion order, which is the order Object.keys and objectValues     *)
(* enumerate for the (non-numeric) names of a schema.  A type reference is *)
(* its List/NonNull wrappers from the outermost in, around the identity of *)
(* a named type.                                                           *)
(***************************************************************************)
EXTENDS Integers, Sequences, FiniteSets, TLC

VARIABLES
    heap,            \* every object allocated so far; identity = index
    schema,          \* schemaConfig of the call's input schema
    compareOptions,  \* the call's second argument
    ord,             \* declaration order the first input was written in
    mode,            \* "first", or how the second call's input was chosen
    pc,              \* position inside lexicographicSortSchema
    idx,             \* loop index of the running keyValMap / map / constructor loop
    typeMap,         \* the name index (line 51), an ObjMap name -> instance
    sorted,          \* the sorted array the running loop iterates over
    result,          \* configuration handed to new GraphQLSchema (line 57)
    sortCalls,       \* per type name, the sortNamedType calls of this call
    earlyLookups,    \* index lookups made while the index was incomplete
    firstView        \* the names of the first call's output, collection by collection

vars == <<heap, schema, compareOptions, ord, mode, pc, idx, typeMap, sorted,
          result, sortCalls, earlyLookups, firstView>>

\* Deepest List/NonNull nesting among the type references of the inputs.
MaxDepth == 3

\* The absent value: undefined / null.
Undefined == 0

----------------------------------------------------------------------------
(* Names and their comparison.                                             *)

Letters == {"a", "A", "b", "B", "c"}

\* Collation key of a name: its primary weight and whether it is upper case.
\* Under the root collation "_" sorts before letters and letters sort
\* alphabetically whatever their case.
CollationKey(name) ==
    CASE name = "__Type"     -> [primary |-> 1, upper |-> FALSE]
      [] name = "__TypeKind" -> [primary |-> 2, upper |-> FALSE]
      [] name = "a"          -> [primary |-> 3, upper |-> FALSE]
      [] name = "A"          -> [primary |-> 3, upper |-> TRUE]
      [] name = "b"          -> [primary |-> 4, upper |-> FALSE]
      [] name = "B"          -> [primary |-> 4, upper |-> TRUE]
      [] name = "c"          -> [primary |-> 5, upper |-> FALSE]
      [] name = "E"          -> [primary |-> 6, upper |-> TRUE]
      [] name = "I"          -> [primary |-> 7, upper |-> TRUE]
      [] name = "S"          -> [primary |-> 8, upper |-> TRUE]

\* The compareOptions a caller passes: none, a collator that ignores case
\* and accents, a collator that puts upper case first.
NoOptions == [locales |-> "undefined", sensitivity |-> "variant", caseFirst |-> "false"]
BaseOptions == [locales |-> "en", sensitivity |-> "base", caseFirst |-> "false"]
UpperFirstOptions == [locales |-> "en", sensitivity |-> "variant", caseFirst |-> "upper"]
CompareOptionsSet == {NoOptions, BaseOptions, UpperFirstOptions}

\* key1.localeCompare(key2, locales, options): negative, zero or positive.
localeCompare(key1, key2, opts) ==
    LET k1 == CollationKey(key1)
        k2 == CollationKey(key2)
    IN  IF k1.primary < k2.primary THEN -1
        ELSE IF k1.primary > k2.primary THEN 1
        ELSE IF opts.sensitivity = "base" \/ k1.upper = k2.upper THEN 0
        ELSE IF opts.caseFirst = "upper"
             THEN (IF k1.upper THEN -1 ELSE 1)
             ELSE (IF k1.upper THEN 1 ELSE -1)

\* A sort that is not stable: of elements that compare equal, the later one
\* comes first.
SortPermutationUnstable(keys, opts) ==
    LET n == Len(keys)
        pos(i) == 1 + Cardinality({j \in 1..n :
                        \/ localeCompare(keys[j], keys[i], opts) < 0
                        \/ /\ j > i
                           /\ localeCompare(keys[j], keys[i], opts) = 0})
    IN  [p \in 1..n |-> CHOOSE i \in 1..n : pos(i) = p]

\* Array.prototype.sort under the comparator of lines 208-216, as the
\* permutation it applies: the element at position p of the sorted array is
\* the element at position SortPermutation[p] of the array sorted.  The sort
\* is stable: an element moves behind every element that compares smaller
\* and behind the elements before it that compare equal.
SortPermutation(keys, opts) ==
    LET n == Len(keys)
        pos(i) == 1 + Cardinality({j \in 1..n :
                        \/ localeCompare(keys[j], keys[i], opts) < 0
                        \/ /\ j < i
                           /\ localeCompare(keys[j], keys[i], opts) = 0})
    IN  [p \in 1..n |-> CHOOSE i \in 1..n : pos(i) = p]

\* A sort that keeps one element of every run of elements comparing equal.
sortByDroppingTies(array, keys, opts) ==
    LET perm == SortPermutation(keys, opts)
        n == Len(array)
        kept == {p \in 1..n : p = 1 \/ localeCompare(keys[perm[p - 1]], keys[perm[p]], opts) # 0}
    IN  [q \in 1..Cardinality(kept) |->
            array[perm[CHOOSE p \in kept : Cardinality({r \in kept : r <= p}) = q]]]

\* sortBy(array, mapToKey, compareOptions); keys[i] is mapToKey(array[i]).
sortBy(array, keys, opts) ==
    LET perm == SortPermutation(keys, opts)
    IN  [p \in 1..Len(array) |-> array[perm[p]]]

\* What the array holds after a sort in place, without the copy.
arrayAfterSortInPlace(array, keys, opts) == sortBy(array, keys, opts)

\* What the caller's array holds after sortBy: sort works on the copy that
\* slice() made, the array itself keeps its elements and their order.
arrayAfterSortBy(array, keys, opts) == array

\* The name of each named type of an array of (references to) named types.
NamesOf(array, h) == [i \in 1..Len(array) |-> h[array[i]].name]

\* The array as it was given.
sortByNameAsDeclared(array, h, opts) == array

\* sortByName(array, compareOptions) on an array of named types or directives
\* held by identity.
sortByName(array, h, opts) == sortBy(array, NamesOf(array, h), opts)

----------------------------------------------------------------------------
(* ObjMaps.                                                                *)

Keys(map) == [i \in 1..Len(map) |-> map[i].key]

Has(map, key) == \E i \in 1..Len(map) : map[i].key = key

\* map[key], undefined when the map has no such key.
Get(map, key) ==
    IF Has(map, key)
    THEN map[CHOOSE i \in 1..Len(map) : map[i].key = key].value
    ELSE Undefined

\* map[key] = value: a new key is appended, an old key keeps its place.
Put(map, key, value) ==
    IF Has(map, key)
    THEN [i \in 1..Len(map) |->
            IF map[i].key = key THEN [key |-> key, value |-> value] ELSE map[i]]
    ELSE Append(map, [key |-> key, value |-> value])

objectValues(map) == [i \in 1..Len(map) |-> map[i].value]

----------------------------------------------------------------------------
(* Type references and the Reference Resolver (lines 68-85).               *)

\* A reference is [wrappers, named]: the wrappers from the outermost in, and
\* the identity of the named type (Undefined for a missing one).
NamedRef(id) == [wrappers |-> <<>>, named |-> id]
GraphQLList(ofType) == [ofType EXCEPT !.wrappers = <<"List">> \o @]
GraphQLNonNull(ofType) == [ofType EXCEPT !.wrappers = <<"NonNull">> \o @]
isListType(type) == type.wrappers # <<>> /\ Head(type.wrappers) = "List"
isNonNullType(type) == type.wrappers # <<>> /\ Head(type.wrappers) = "NonNull"
OfType(type) == [type EXCEPT !.wrappers = Tail(@)]

\* A resolver that hands back the reference it was given.
replaceNamedTypeKept(type, tm, h) == type

\* replaceNamedType: typeMap[type.name], which is undefined for a name the
\* index does not hold.  type is the identity of a named type.
replaceNamedType(type, tm, h) == Get(tm, h[type].name)

\* replaceMaybeType: maybeType && replaceNamedType(maybeType).
replaceMaybeType(maybeType, tm, h) ==
    IF maybeType = Undefined THEN maybeType ELSE replaceNamedType(maybeType, tm, h)

\* A resolver without the NonNull branch: the wrapper is not put back.
RECURSIVE replaceTypeNoNonNull(_, _, _)
replaceTypeNoNonNull(type, tm, h) ==
    IF isListType(type) THEN GraphQLList(replaceTypeNoNonNull(OfType(type), tm, h))
    ELSE IF isNonNullType(type) THEN replaceTypeNoNonNull(OfType(type), tm, h)
    ELSE NamedRef(replaceNamedType(type.named, tm, h))

RECURSIVE replaceType(_, _, _)
replaceType(type, tm, h) ==
    IF isListType(type) THEN GraphQLList(replaceType(OfType(type), tm, h))
    ELSE IF isNonNullType(type) THEN GraphQLNonNull(replaceType(OfType(type), tm, h))
    ELSE NamedRef(replaceNamedType(type.named, tm, h))

----------------------------------------------------------------------------
(* Sorting of maps and lists (lines 96-132, 182-194).                      *)

\* The keys of a map as Object.keys gives them, not sorted.
sortedKeysAsDeclared(map, opts) == Keys(map)

\* Line 188: the keys of a map, sorted.
sortedKeys(map, opts) == sortBy(Keys(map), Keys(map), opts)

\* sortObjMap: a new map that receives the keys in sorted order, each with
\* its value passed through sortValueFn; values holds sortValueFn(map[key])
\* under each key of map.
sortObjMap(map, values, opts) ==
    LET keys == sortedKeys(map, opts)
    IN  [i \in 1..Len(keys) |-> [key |-> keys[i], value |-> Get(values, keys[i])]]

\* A map's values replaced by those of the function f on its positions.
MapValues(map, f) == [i \in 1..Len(map) |-> [key |-> map[i].key, value |-> f[i]]]

sortArgs(args, tm, h, opts) ==
    LET fn == [i \in 1..Len(args) |->
                 [args[i].value EXCEPT !.type = replaceType(@, tm, h)]]
    IN  sortObjMap(args, MapValues(args, fn), opts)

sortFields(fieldsMap, tm, h, opts) ==
    LET fn == [i \in 1..Len(fieldsMap) |->
                 [fieldsMap[i].value EXCEPT !.type = replaceType(@, tm, h),
                                            !.args = sortArgs(@, tm, h, opts)]]
    IN  sortObjMap(fieldsMap, MapValues(fieldsMap, fn), opts)

sortInputFields(fieldsMap, tm, h, opts) ==
    LET fn == [i \in 1..Len(fieldsMap) |->
                 [fieldsMap[i].value EXCEPT !.type = replaceType(@, tm, h)]]
    IN  sortObjMap(fieldsMap, MapValues(fieldsMap, fn), opts)

\* Line 165: sortObjMap(config.values, undefined, compareOptions); without
\* a sortValueFn each value is taken as it is.
sortValues(values, opts) == sortObjMap(values, values, opts)

sortTypes(arr, tm, h, opts) ==
    LET byName == sortByName(arr, h, opts)
    IN  [i \in 1..Len(byName) |-> replaceNamedType(byName[i], tm, h)]

\* sortDirective: a new directive with sorted locations and arguments.
sortDirective(directive, tm, h, opts) ==
    [directive EXCEPT !.locations = sortBy(@, @, opts),
                      !.args = sortArgs(@, tm, h, opts)]

----------------------------------------------------------------------------
(* The Type-Kind Sorter (lines 134-179).                                   *)

\* isIntrospectionType: the type's name is one of the introspection types.
IntrospectionNames == {"__Type", "__TypeKind"}
isIntrospectionType(obj) == obj.name \in IntrospectionNames
isScalarType(obj) == obj.kind = "Scalar"

\* Kinds whose rebuilt instance takes its collections from closures
\* (interfaces: () => ..., fields: () => ..., types: () => ...).
ThunkKinds == {"Object", "Interface", "Union", "InputObject"}

\* The closures of a rebuilt instance, run: interfaces and fields of an
\* object or interface, types of a union, fields of an input object.
resolveThunks(obj, tm, h, opts) ==
    LET config == h[obj.config]
    IN  CASE obj.kind \in {"Object", "Interface"} ->
               [obj EXCEPT !.lazy = FALSE,
                           !.interfaces = sortTypes(config.interfaces, tm, h, opts),
                           !.fields = sortFields(config.fields, tm, h, opts)]
          [] obj.kind = "Union" ->
               [obj EXCEPT !.lazy = FALSE,
                           !.types = sortTypes(config.types, tm, h, opts)]
          [] obj.kind = "InputObject" ->
               [obj EXCEPT !.lazy = FALSE,
                           !.fields = sortInputFields(config.fields, tm, h, opts)]
          [] OTHER -> obj

\* A sorter that asks for the introspection types after the dispatch on the
\* kind: only scalars are handed back before it.
sortNamedTypeKindFirst(type, h, opts) ==
    LET obj == h[type]
        built == [obj EXCEPT !.lazy = obj.kind \in ThunkKinds, !.config = type,
                             !.interfaces = <<>>, !.fields = <<>>, !.types = <<>>]
    IN  IF isScalarType(obj)
        THEN [fresh |-> FALSE, obj |-> obj]
        ELSE IF obj.kind = "Enum"
        THEN [fresh |-> TRUE, obj |-> [built EXCEPT !.values = sortValues(obj.values, opts)]]
        ELSE [fresh |-> TRUE, obj |-> built]

\* A sorter that runs the closures at once, against the index as it stands.
sortNamedTypeEager(type, h, opts) ==
    LET obj == h[type]
        built == [obj EXCEPT !.lazy = obj.kind \in ThunkKinds, !.config = type,
                             !.interfaces = <<>>, !.fields = <<>>, !.types = <<>>]
    IN  IF isScalarType(obj) \/ isIntrospectionType(obj)
        THEN [fresh |-> FALSE, obj |-> obj]
        ELSE IF obj.kind = "Enum"
        THEN [fresh |-> TRUE, obj |-> [built EXCEPT !.values = sortValues(obj.values, opts)]]
        ELSE [fresh |-> TRUE, obj |-> resolveThunks(built, typeMap, h, opts)]

\* sortNamedType(type), type the identity of a named type of the input.
\* fresh says whether a new instance is built; obj is the instance returned:
\* the type's own object, or a new object that keeps config (the identity of
\* the type whose toConfig() its closures captured) and has its closures
\* pending.  An enum's values are sorted at once.
sortNamedType(type, h, opts) ==
    LET obj == h[type]
        built == [obj EXCEPT !.lazy = obj.kind \in ThunkKinds, !.config = type,
                             !.interfaces = <<>>, !.fields = <<>>, !.types = <<>>]
    IN  IF isScalarType(obj) \/ isIntrospectionType(obj)
        THEN [fresh |-> FALSE, obj |-> obj]
        ELSE IF obj.kind = "Enum"
        THEN [fresh |-> TRUE, obj |-> [built EXCEPT !.values = sortValues(obj.values, opts)]]
        ELSE [fresh |-> TRUE, obj |-> built]

----------------------------------------------------------------------------
(* The input schemas.  One schema is written down in a declaration order   *)
(* o of the letters: every collection lists its members in the order o     *)
(* puts them in.                                                           *)

Orders == {o \in [1..Cardinality(Letters) -> Letters] :
             \A i, j \in 1..Cardinality(Letters) : i # j => o[i] # o[j]}

Restrict(o, S) == SelectSeq(o, LAMBDA x : x \in S)

\* The named types of the input; a type's identity is its place here.
TypeNames == <<"__TypeKind", "S", "a", "A", "b", "B", "c", "I", "__Type", "E">>
TypeId(name) == CHOOSE i \in 1..Len(TypeNames) : TypeNames[i] = name

\* n wrappers, NonNull outermost, alternating with List.
Wrap(n) == [i \in 1..n |-> IF i % 2 = 1 THEN "NonNull" ELSE "List"]
Ref(wrappers, name) == [wrappers |-> wrappers, named |-> TypeId(name)]

ArgType(name) ==
    CASE name = "a" -> Ref(<<"NonNull">>, "I")
      [] name = "A" -> Ref(<<>>, "S")
      [] name = "b" -> Ref(<<>>, "E")
      [] name = "B" -> Ref(<<"List", "NonNull">>, "E")

ArgsMap(o, S) ==
    LET keys == Restrict(o, S)
    IN  [i \in 1..Len(keys) |-> [key |-> keys[i], value |-> [type |-> ArgType(keys[i])]]]

\* A field of an object or interface type, by its name.
FieldConfig(name, o) ==
    CASE name = "a" -> [type |-> Ref(Wrap(MaxDepth), "b"), args |-> ArgsMap(o, {"A", "a", "B"})]
      [] name = "A" -> [type |-> Ref(<<>>, "c"), args |-> <<>>]
      [] name = "b" -> [type |-> Ref(<<"List">>, "B"), args |-> ArgsMap(o, {"b", "a"})]
      [] name = "B" -> [type |-> Ref(<<"NonNull">>, "a"), args |-> <<>>]
      [] name = "c" -> [type |-> Ref(<<"List", "List">>, "A"), args |-> <<>>]

FieldsMap(o, S) ==
    LET keys == Restrict(o, S)
    IN  [i \in 1..Len(keys) |-> [key |-> keys[i], value |-> FieldConfig(keys[i], o)]]

\* A field of the input object type I.
InputFieldConfig(name) ==
    CASE name = "a" -> [type |-> Ref(<<>>, "S"), args |-> <<>>]
      [] name = "A" -> [type |-> Ref(<<"List", "NonNull">>, "I"), args |-> <<>>]
      [] name = "b" -> [type |-> Ref(<<"NonNull">>, "E"), args |-> <<>>]

InputFieldsMap(o, S) ==
    LET keys == Restrict(o, S)
    IN  [i \in 1..Len(keys) |-> [key |-> keys[i], value |-> InputFieldConfig(keys[i])]]

\* The introspection types are the library's own, the same in every schema,
\* and list their members in this order, which no comparator calls sorted.
IntrospectionOrder == <<"b", "B", "A", "a", "c">>

\* A field of the introspection type: it refers to introspection types and
\* scalars only.
IntrospectionFieldConfig(name, o) ==
    CASE name = "a" -> [type |-> Ref(<<"NonNull">>, "__TypeKind"), args |-> <<>>]
      [] name = "b" -> [type |-> Ref(<<"List">>, "__Type"),
                        args |-> LET keys == Restrict(o, {"B", "a"})
                                 IN  [i \in 1..Len(keys) |->
                                        [key |-> keys[i], value |-> [type |-> Ref(<<>>, "S")]]]]

IntrospectionFieldsMap(o, S) ==
    LET keys == Restrict(o, S)
    IN  [i \in 1..Len(keys) |-> [key |-> keys[i], value |-> IntrospectionFieldConfig(keys[i], o)]]

ValuesMap(o, S) ==
    LET keys == Restrict(o, S)
    IN  [i \in 1..Len(keys) |-> [key |-> keys[i], value |-> [value |-> keys[i]]]]

Ids(names) == [i \in 1..Len(names) |-> TypeId(names[i])]

BlankType(name, kind) ==
    [name |-> name, kind |-> kind, lazy |-> FALSE, config |-> Undefined,
     interfaces |-> <<>>, fields |-> <<>>, types |-> <<>>, values |-> <<>>]

InputType(name, o) ==
    CASE name = "a" -> [BlankType(name, "Interface") EXCEPT
                          !.fields = FieldsMap(o, {"a", "b", "B"})]
      [] name = "A" -> [BlankType(name, "Interface") EXCEPT
                          !.interfaces = Ids(<<"a">>),
                          !.fields = FieldsMap(o, {"a", "A", "b"})]
      [] name = "b" -> [BlankType(name, "Object") EXCEPT
                          !.interfaces = Ids(Restrict(o, {"a", "A"})),
                          !.fields = FieldsMap(o, {"a", "A", "b", "c"})]
      [] name = "c" -> [BlankType(name, "Object") EXCEPT
                          !.interfaces = Ids(Restrict(o, {"a", "A"})),
                          !.fields = FieldsMap(o, {"B", "A", "a"})]
      [] name = "B" -> [BlankType(name, "Union") EXCEPT
                          !.types = Ids(Restrict(o, {"b", "c"}))]
      [] name = "E" -> [BlankType(name, "Enum") EXCEPT
                          !.values = ValuesMap(o, {"a", "A", "B"})]
      [] name = "I" -> [BlankType(name, "InputObject") EXCEPT
                          !.fields = InputFieldsMap(o, {"A", "b", "a"})]
      [] name = "S" -> BlankType(name, "Scalar")
      [] name = "__Type" -> [BlankType(name, "Object") EXCEPT
                          !.fields = IntrospectionFieldsMap(IntrospectionOrder, {"a", "b"})]
      [] name = "__TypeKind" -> [BlankType(name, "Enum") EXCEPT
                          !.values = ValuesMap(IntrospectionOrder, {"b", "A"})]

InputHeap(o) == [i \in 1..Len(TypeNames) |-> InputType(TypeNames[i], o)]

InputDirective(name, o) ==
    IF name = "a"
    THEN [name |-> name, locations |-> Restrict(o, {"A", "b", "a"}),
          args |-> ArgsMap(o, {"b", "A"})]
    ELSE [name |-> name, locations |-> Restrict(o, {"B", "c"}), args |-> <<>>]

InputDirectives(o) ==
    LET names == Restrict(o, {"a", "B"})
    IN  [i \in 1..Len(names) |-> InputDirective(names[i], o)]

\* The root operation types: query always, one of the other two.
RootChoices ==
    {[query |-> TypeId("b"), mutation |-> TypeId("c"), subscription |-> Undefined],
     [query |-> TypeId("b"), mutation |-> Undefined, subscription |-> TypeId("c")]}

\* schema.toConfig() of the schema declared in order o with roots r.  The
\* types in absent are left out of the type list.
InputSchema(o, r, absent) ==
    [types |-> SelectSeq(
                  Ids(<<"__TypeKind", "S">> \o Restrict(o, Letters) \o <<"I", "__Type", "E">>),
                  LAMBDA id : TypeNames[id] \notin absent),
     directives |-> InputDirectives(o),
     query |-> r.query, mutation |-> r.mutation, subscription |-> r.subscription]

----------------------------------------------------------------------------
(* The names of a schema configuration, collection by collection.          *)

RefName(id, h) == IF id = Undefined THEN "undefined" ELSE h[id].name
RefNames(array, h) == [i \in 1..Len(array) |-> RefName(array[i], h)]

TypeView(obj, h) ==
    [name |-> obj.name,
     interfaces |-> RefNames(obj.interfaces, h),
     fields |-> [j \in 1..Len(obj.fields) |->
                   [name |-> obj.fields[j].key, args |-> Keys(obj.fields[j].value.args)]],
     types |-> RefNames(obj.types, h),
     values |-> Keys(obj.values)]

NameView(config, h) ==
    [types |-> [i \in 1..Len(config.types) |-> TypeView(h[config.types[i]], h)],
     directives |-> [i \in 1..Len(config.directives) |->
                       [name |-> config.directives[i].name,
                        locations |-> config.directives[i].locations,
                        args |-> Keys(config.directives[i].args)]]]

----------------------------------------------------------------------------
(* lexicographicSortSchema, step by step.                                  *)

NoResult == [types |-> <<>>, directives |-> <<>>,
             query |-> Undefined, mutation |-> Undefined, subscription |-> Undefined]

NoCalls == [n \in {TypeNames[i] : i \in 1..Len(TypeNames)} |-> 0]

\* The index holds an entry for every type name of the input.
IndexComplete ==
    \A i \in 1..Len(schema.types) : Has(typeMap, heap[schema.types[i]].name)

FirstCall(o, r, absent, opts) ==
    /\ heap = InputHeap(o)
    /\ schema = InputSchema(o, r, absent)
    /\ compareOptions = opts
    /\ ord = o
    /\ mode = "first"
    /\ pc = "start"
    /\ idx = 1
    /\ typeMap = <<>>
    /\ sorted = <<>>
    /\ result = NoResult
    /\ sortCalls = NoCalls
    /\ earlyLookups = 0
    /\ firstView = <<>>

\* Where the call is: at its entry, inside the loop over array, behind it.
AtEntry == pc = "start"
InLoop(p, array) == pc = p /\ idx <= Len(array)
PastLoop(p, array) == pc = p /\ idx > Len(array)

\* A well-formed schema, in any declaration order, under any compareOptions.
Init ==
    \E o \in Orders, r \in RootChoices, opts \in CompareOptionsSet :
        FirstCall(o, r, {}, opts)

\* Lines 50-52: schema.toConfig() and sortByName(schemaConfig.types).
Start ==
    /\ AtEntry
    /\ sorted' = sortByName(schema.types, heap, compareOptions)
    /\ schema' = [schema EXCEPT !.types =
                    arrayAfterSortBy(@, NamesOf(@, heap), compareOptions)]
    /\ typeMap' = <<>>
    /\ idx' = 1
    /\ pc' = "types"
    /\ UNCHANGED <<heap, compareOptions, ord, mode, result, sortCalls,
                   earlyLookups, firstView>>

\* Lines 51-55: one round of keyValMap, map[type.name] = sortNamedType(type).
\* A rebuilt instance of a kind that refers to other types and has no
\* closure pending has looked them up in the index as it stands.
SortNamedTypeStep ==
    /\ InLoop("types", sorted)
    /\ LET type == sorted[idx]
           r == sortNamedType(type, heap, compareOptions)
           id == IF r.fresh THEN Len(heap) + 1 ELSE type
       IN  /\ heap' = IF r.fresh THEN Append(heap, r.obj) ELSE heap
           /\ typeMap' = Put(typeMap, heap[type].name, id)
           /\ sortCalls' = [sortCalls EXCEPT ![heap[type].name] = @ + 1]
           /\ earlyLookups' =
                IF r.fresh /\ r.obj.kind \in ThunkKinds /\ ~r.obj.lazy
                THEN earlyLookups + 1 ELSE earlyLookups
    /\ idx' = idx + 1
    /\ UNCHANGED <<schema, compareOptions, ord, mode, pc, sorted, result, firstView>>

\* Lines 59-60: types: objectValues(typeMap), then
\* sortByName(schemaConfig.directives).
BeginDirectives ==
    /\ PastLoop("types", sorted)
    /\ result' = [result EXCEPT !.types = objectValues(typeMap)]
    /\ sorted' = sortBy(schema.directives,
                        [i \in 1..Len(schema.directives) |-> schema.directives[i].name],
                        compareOptions)
    /\ schema' = [schema EXCEPT !.directives =
                    arrayAfterSortBy(@, [i \in 1..Len(@) |-> @[i].name], compareOptions)]
    /\ idx' = 1
    /\ pc' = "directives"
    /\ UNCHANGED <<heap, compareOptions, ord, mode, typeMap, sortCalls,
                   earlyLookups, firstView>>

\* Lines 60-62: one round of .map(sortDirective).
SortDirectiveStep ==
    /\ InLoop("directives", sorted)
    /\ result' = [result EXCEPT !.directives =
                    Append(@, sortDirective(sorted[idx], typeMap, heap, compareOptions))]
    /\ schema' = [schema EXCEPT !.directives =
                    [i \in 1..Len(@) |->
                       IF @[i].name = sorted[idx].name
                       THEN [@[i] EXCEPT !.locations = arrayAfterSortBy(@, @, compareOptions)]
                       ELSE @[i]]]
    /\ earlyLookups' = IF IndexComplete THEN earlyLookups ELSE earlyLookups + 1
    /\ idx' = idx + 1
    /\ UNCHANGED <<heap, compareOptions, ord, mode, pc, typeMap, sorted,
                   sortCalls, firstView>>

\* Lines 63-65: the root operation types.
ReplaceRoots ==
    /\ PastLoop("directives", sorted)
    /\ result' = [result EXCEPT
                    !.query = replaceMaybeType(schema.query, typeMap, heap),
                    !.mutation = replaceMaybeType(schema.mutation, typeMap, heap),
                    !.subscription = replaceMaybeType(schema.subscription, typeMap, heap)]
    /\ earlyLookups' = IF IndexComplete THEN earlyLookups ELSE earlyLookups + 1
    /\ idx' = 1
    /\ pc' = "construct"
    /\ UNCHANGED <<heap, schema, compareOptions, ord, mode, typeMap, sorted,
                   sortCalls, firstView>>

\* Line 57: new GraphQLSchema(...) walks the types it is given and runs the
\* closures of each rebuilt instance.  sortTypes sorts the interface or
\* member array the closure captured from the input type's configuration.
ResolveThunksStep ==
    /\ InLoop("construct", result.types)
    /\ LET id == result.types[idx]
           obj == heap[id]
       IN  IF id # Undefined /\ obj.lazy
           THEN /\ heap' = [i \in 1..Len(heap) |->
                      IF i = id THEN resolveThunks(obj, typeMap, heap, compareOptions)
                      ELSE IF i = obj.config
                      THEN [heap[i] EXCEPT
                              !.interfaces = arrayAfterSortBy(@, NamesOf(@, heap), compareOptions),
                              !.types = arrayAfterSortBy(@, NamesOf(@, heap), compareOptions)]
                      ELSE heap[i]]
                /\ earlyLookups' = IF IndexComplete THEN earlyLookups ELSE earlyLookups + 1
           ELSE UNCHANGED <<heap, earlyLookups>>
    /\ idx' = idx + 1
    /\ UNCHANGED <<schema, compareOptions, ord, mode, pc, typeMap, sorted,
                   result, sortCalls, firstView>>

\* Line 57: the new schema is returned.
Return ==
    /\ PastLoop("construct", result.types)
    /\ pc' = "done"
    /\ firstView' = IF mode = "first" THEN NameView(result, heap) ELSE firstView
    /\ UNCHANGED <<heap, schema, compareOptions, ord, mode, idx, typeMap,
                   sorted, result, sortCalls, earlyLookups>>

Reverse(o) == [i \in 1..Len(o) |-> o[Len(o) + 1 - i]]
Rotate(o) == Tail(o) \o <<Head(o)>>

\* The input of a second call: the first call's output ("resort"), the same
\* input again ("same"), or the same schema declared in another order.
SecondInput(m) ==
    LET roots == [query |-> schema.query, mutation |-> schema.mutation,
                  subscription |-> schema.subscription]
        o2 == IF m = "reverse" THEN Reverse(ord) ELSE Rotate(ord)
    IN  CASE m = "resort" -> [heap |-> heap, schema |-> result]
          [] m = "same" -> [heap |-> heap, schema |-> schema]
          [] OTHER -> [heap |-> InputHeap(o2), schema |-> InputSchema(o2, roots, {})]

SecondCall ==
    /\ pc = "done"
    /\ mode = "first"
    /\ \E m \in {"resort", "same", "reverse", "rotate"} :
          /\ mode' = m
          /\ heap' = SecondInput(m).heap
          /\ schema' = SecondInput(m).schema
    /\ pc' = "start"
    /\ idx' = 1
    /\ typeMap' = <<>>
    /\ sorted' = <<>>
    /\ result' = NoResult
    /\ sortCalls' = NoCalls
    /\ earlyLookups' = 0
    /\ UNCHANGED <<compareOptions, ord, firstView>>

\* A schema whose type list lacks the object type c, which a field, the
\* union and a root operation type refer to.
InitOpen ==
    \E o \in Orders, r \in RootChoices, opts \in CompareOptionsSet :
        FirstCall(o, r, {"c"}, opts)

Call ==
    \/ Start
    \/ SortNamedTypeStep
    \/ BeginDirectives
    \/ SortDirectiveStep
    \/ ReplaceRoots
    \/ ResolveThunksStep
    \/ Return

Next == Call \/ SecondCall

Spec == Init /\ [][Next]_vars

\* One call on a schema that is not self-contained.
SpecOpen == InitOpen /\ [][Call]_vars

----------------------------------------------------------------------------
(* Vocabulary of the properties.                                           *)

Done == pc = "done"

Range(seq) == {seq[i] : i \in 1..Len(seq)}

\* The name sequences of one type's collections.
TypeCollections(tv) ==
    {tv.interfaces, tv.types, tv.values, [j \in 1..Len(tv.fields) |-> tv.fields[j].name]}
    \cup {tv.fields[j].args : j \in 1..Len(tv.fields)}

\* The name sequences of a schema's collections, those inside the types
\* named in except left out.
Collections(view, except) ==
    {[i \in 1..Len(view.types) |-> view.types[i].name],
     [i \in 1..Len(view.directives) |-> view.directives[i].name]}
    \cup UNION {TypeCollections(view.types[i]) :
                  i \in {k \in 1..Len(view.types) : view.types[k].name \notin except}}
    \cup UNION {{view.directives[i].locations, view.directives[i].args} :
                  i \in 1..Len(view.directives)}

NonDecreasing(names, opts) ==
    \A i \in 1..Len(names) - 1 : localeCompare(names[i], names[i + 1], opts) <= 0

NoTies(names, opts) ==
    \A i, j \in 1..Len(names) : i # j => localeCompare(names[i], names[j], opts) # 0

\* The types sortNamedType hands back as they are.
PassedThrough(config, h) ==
    {h[id].name : id \in {t \in Range(config.types) :
                            isScalarType(h[t]) \/ isIntrospectionType(h[t])}}

\* The instance of the input that has the given name.
InputInstance(name) == CHOOSE id \in Range(schema.types) : heap[id].name = name

OutputView == NameView(result, heap)
InputView == NameView(schema, heap)

\* Some collection of the input is declared out of order.
InputOutOfOrder ==
    \E names \in Collections(InputView, {}) : ~NonDecreasing(names, compareOptions)

----------------------------------------------------------------------------
(* C1: order correctness.                                                  *)

\* C1 as stated: in the returned schema every collection -- the type list,
\* the directive list, each directive's locations and arguments, and each
\* type's fields, interfaces, field arguments, union members and enum
\* values -- is non-decreasing by name under the configured comparator.
C1_EveryCollectionSorted ==
    Done => \A names \in Collections(OutputView, {}) : NonDecreasing(names, compareOptions)

\* C1 amended: the same, for every collection except those inside scalar
\* and introspection types, which are handed back as they were declared.
C1_RebuiltCollectionsSorted ==
    Done => \A names \in Collections(OutputView, PassedThrough(result, heap)) :
               NonDecreasing(names, compareOptions)

\* A first call has returned for an input declared out of order.
C1_Witness ==
    /\ Done
    /\ mode = "first"
    /\ ~NonDecreasing(Keys(heap[TypeId("b")].fields), compareOptions)
    /\ ~NonDecreasing(NamesOf(schema.types, heap), compareOptions)
    /\ \E id \in Range(result.types) : id > Len(TypeNames) /\ Len(heap[id].fields) > 2

----------------------------------------------------------------------------
(* C2: structural equivalence.                                             *)

SameMembers(s, t) == Range(s) = Range(t) /\ Len(s) = Len(t)

SameFieldNames(fin, fout) ==
    /\ SameMembers(Keys(fin), Keys(fout))
    /\ \A k \in Range(Keys(fin)) : SameMembers(Keys(Get(fin, k).args), Keys(Get(fout, k).args))

\* C2: the output holds exactly the type names of the input, per type the
\* same field names, per field the same argument names, per enum the same
\* value names, and the same directive names, each directive with the same
\* locations and argument names; no name twice.
C2_SameNames ==
    Done =>
      /\ SameMembers(NamesOf(schema.types, heap), NamesOf(result.types, heap))
      /\ Cardinality(Range(NamesOf(result.types, heap))) = Len(result.types)
      /\ \A id \in Range(result.types) :
            LET tin == heap[InputInstance(heap[id].name)]
                tout == heap[id]
            IN  /\ SameFieldNames(tin.fields, tout.fields)
                /\ Cardinality(Range(Keys(tout.fields))) = Len(tout.fields)
                /\ SameMembers(Keys(tin.values), Keys(tout.values))
                /\ Cardinality(Range(Keys(tout.values))) = Len(tout.values)
      /\ LET din == schema.directives
             dout == result.directives
         IN  /\ SameMembers([i \in 1..Len(din) |-> din[i].name],
                            [i \in 1..Len(dout) |-> dout[i].name])
             /\ \A i \in 1..Len(din) : \A j \in 1..Len(dout) :
                   din[i].name = dout[j].name =>
                      /\ SameMembers(din[i].locations, dout[j].locations)
                      /\ SameMembers(Keys(din[i].args), Keys(dout[j].args))

\* A call has returned whose input held names that compare as equal and
\* whose output lists its types in another order than the input.
C2_Witness ==
    /\ Done
    /\ compareOptions = BaseOptions
    /\ NamesOf(schema.types, heap) # NamesOf(result.types, heap)
    /\ Len(result.types) = Len(TypeNames)

----------------------------------------------------------------------------
(* C5: one instance per type name.                                         *)

\* The references a type instance holds: interfaces, union members, and
\* the named types of its fields and of their arguments.
RefsOf(obj) ==
    Range(obj.interfaces) \cup Range(obj.types)
    \cup {obj.fields[j].value.type.named : j \in 1..Len(obj.fields)}
    \cup UNION {{obj.fields[j].value.args[k].value.type.named :
                    k \in 1..Len(obj.fields[j].value.args)} : j \in 1..Len(obj.fields)}

DirectiveRefs(d) == {d.args[k].value.type.named : k \in 1..Len(d.args)}

\* The reference is the instance the output's type collection holds under
\* the referenced type's name.
IsOutputInstance(ref) ==
    /\ ref # Undefined
    /\ ref \in Range(result.types)
    /\ \A id \in Range(result.types) : heap[id].name = heap[ref].name => id = ref

\* C5: in the output every reference held by a rebuilt type or directive,
\* and every root operation type, is the instance the output's type
\* collection holds under that name; a root absent in the input is absent
\* in the output.
C5_OneInstancePerName ==
    Done =>
      /\ \A id \in Range(result.types) :
            heap[id].name \notin PassedThrough(result, heap) =>
               \A ref \in RefsOf(heap[id]) : IsOutputInstance(ref)
      /\ \A i \in 1..Len(result.directives) :
            \A ref \in DirectiveRefs(result.directives[i]) : IsOutputInstance(ref)
      /\ \A root \in {"query", "mutation", "subscription"} :
            IF schema[root] = Undefined
            THEN result[root] = Undefined
            ELSE /\ IsOutputInstance(result[root])
                 /\ heap[result[root]].name = heap[schema[root]].name

\* A call has returned a rebuilt mutation root, and no subscription root,
\* for an input whose object types refer to each other.
C5_Witness ==
    /\ Done
    /\ schema.mutation # Undefined
    /\ result.mutation # schema.mutation
    /\ result.subscription = Undefined
    /\ \E id \in Range(result.types) :
          /\ heap[id].kind = "Object"
          /\ result.mutation \in RefsOf(heap[id])
          /\ result.query \in RefsOf(heap[result.mutation])

----------------------------------------------------------------------------
(* C9: scalar and introspection types pass through.                        *)

\* C9: the index maps a scalar or introspection type, of whatever kind, to
\* the input's own instance, left as it was declared, and any other type
\* to an instance that is none of the input's; once the call has returned,
\* the collections of such a new instance are sorted.
C9_PassThrough ==
    \A e \in Range(typeMap) :
       LET in == InputInstance(e.key)
       IN  IF isScalarType(heap[in]) \/ isIntrospectionType(heap[in])
           THEN /\ e.value = in
                /\ mode = "first" => heap[in] = InputType(e.key, ord)
           ELSE /\ e.value \notin Range(schema.types)
                /\ heap[e.value].kind = heap[in].kind
                /\ Done => \A names \in TypeCollections(TypeView(heap[e.value], heap)) :
                              NonDecreasing(names, compareOptions)

\* A call has returned: the introspection object type is the input's
\* instance with its fields out of order, the introspection enum likewise,
\* and an object type declared out of order was rebuilt.
C9_Witness ==
    /\ Done
    /\ mode = "first"
    /\ Get(typeMap, "__Type") = TypeId("__Type")
    /\ ~NonDecreasing(Keys(heap[Get(typeMap, "__Type")].fields), compareOptions)
    /\ ~NonDecreasing(Keys(heap[Get(typeMap, "__TypeKind")].values), compareOptions)
    /\ Get(typeMap, "S") = TypeId("S")
    /\ ~NonDecreasing(Keys(heap[TypeId("b")].fields), compareOptions)
    /\ Get(typeMap, "b") # TypeId("b")

----------------------------------------------------------------------------
(* C10: replaceType keeps the wrappers.                                    *)

\* replaceType gave out for the reference in: the same wrappers, around the
\* index entry of the same name.
Replaced(in, out) ==
    /\ out.wrappers = in.wrappers
    /\ out.named = Get(typeMap, heap[in.named].name)
    /\ out.named # Undefined
    /\ heap[out.named].name = heap[in.named].name

\* C10: every reference of a rebuilt field, argument or input field has the
\* wrappers of the reference it was made from, in the same order, around
\* the index entry named like that reference's named type.
C10_WrappersKept ==
    \A id \in Range(result.types) \ Range(schema.types) :
       LET out == heap[id]
       IN  (out.config # Undefined /\ ~out.lazy) =>
              \A j \in 1..Len(out.fields) :
                 LET fout == out.fields[j].value
                     fin == Get(heap[out.config].fields, out.fields[j].key)
                 IN  /\ Replaced(fin.type, fout.type)
                     /\ \A k \in 1..Len(fout.args) :
                           Replaced(Get(fin.args, fout.args[k].key).type, fout.args[k].value.type)

\* A rebuilt field holds a reference of the greatest depth, NonNull
\* outermost, and an argument holds List(NonNull(...)).
C10_Witness ==
    \E id \in Range(result.types) :
       /\ heap[id].config # Undefined
       /\ \E j \in 1..Len(heap[id].fields) :
             LET f == heap[id].fields[j].value
             IN  /\ Len(f.type.wrappers) = MaxDepth
                 /\ Head(f.type.wrappers) = "NonNull"
                 /\ f.type.named \notin Range(schema.types)
                 /\ \E k \in 1..Len(f.args) :
                       f.args[k].value.type.wrappers = <<"List", "NonNull">>

----------------------------------------------------------------------------
(* C3: the output does not depend on the declaration order.                *)

Permuted == mode \in {"reverse", "rotate"}

\* C3 as stated: a schema with the same content declared in another order
\* is sorted to the same names in the same order in every collection,
\* whatever the compareOptions.
C3_OrderIndependent ==
    (Done /\ Permuted) => OutputView = firstView

\* No two names of one collection of the input compare as equal.
TieFree ==
    \A names \in Collections(InputView, {}) : NoTies(names, compareOptions)

\* C3 amended: the same, under compareOptions that let no two names of one
\* collection compare as equal.
C3_OrderIndependentWithoutTies ==
    (Done /\ Permuted /\ TieFree) => OutputView = firstView

\* The second of two calls on differently declared schemas has returned,
\* under options that put upper case first and so leave no ties.
C3_Witness ==
    /\ Done
    /\ Permuted
    /\ TieFree
    /\ compareOptions = UpperFirstOptions
    /\ InputOutOfOrder

----------------------------------------------------------------------------
(* C7: idempotence.                                                        *)

\* C7: sorting the output of a call again, under the same compareOptions,
\* gives the same names in the same order in every collection.
C7_Idempotent ==
    (Done /\ mode = "resort") => OutputView = firstView

\* The output of a first call on a schema declared out of order, under
\* options with ties, has been sorted again.
C7_Witness ==
    /\ Done
    /\ mode = "resort"
    /\ compareOptions = BaseOptions
    /\ ~TieFree
    /\ ~NonDecreasing(ord, compareOptions)

----------------------------------------------------------------------------
(* C8: the input is left as it was.                                        *)

\* C8: no step of a call changes the input: its type list, directive list
\* and root types, and every type instance of its type list with all its
\* collections; and a second call on the same input gives the names of the
\* first call's output again.
C8_InputUnchanged ==
    /\ [][mode' = mode =>
            /\ schema' = schema
            /\ \A id \in Range(schema.types) : heap'[id] = heap[id]]_vars
    /\ []((Done /\ mode = "same") => OutputView = firstView)

\* A second call on the same input, declared out of order in its type
\* list, its interface lists and its directive locations, has returned.
C8_Witness ==
    /\ Done
    /\ mode = "same"
    /\ ~NonDecreasing(NamesOf(schema.types, heap), compareOptions)
    /\ ~NonDecreasing(NamesOf(heap[TypeId("b")].interfaces, heap), compareOptions)
    /\ ~NonDecreasing(NamesOf(heap[TypeId("B")].types, heap), compareOptions)
    /\ \A i \in 1..Len(schema.directives) :
          ~NonDecreasing(schema.directives[i].locations, compareOptions)

----------------------------------------------------------------------------
(* C4: termination, one sortNamedType per type, lookups after the index.   *)

InputNames == Range(NamesOf(schema.types, heap))

\* The steps the running call has left at most: the rounds of the loop it
\* is in, and the loops after it.
StepsLeft ==
    LET T == Len(schema.types)
        D == Len(schema.directives)
    IN  CASE pc = "start" -> 1 + (T + 1) + (D + 1) + (T + 1)
          [] pc = "types" -> (Len(sorted) + 1 - idx) + 1 + (D + 1) + (T + 1)
          [] pc = "directives" -> (Len(sorted) + 1 - idx) + 1 + (Len(result.types) + 1)
          [] pc = "construct" -> (Len(result.types) + 1 - idx) + 1
          [] pc = "done" -> 0

\* The call is at a place where one of its steps applies.
CanStep ==
    \/ AtEntry
    \/ InLoop("types", sorted) \/ PastLoop("types", sorted)
    \/ InLoop("directives", sorted) \/ PastLoop("directives", sorted)
    \/ InLoop("construct", result.types) \/ PastLoop("construct", result.types)

\* C4: every call returns -- until it has, a step can be taken, and every
\* step leaves fewer steps to take; sortNamedType runs once for each named
\* type of the input and not again when a reference is resolved; no
\* reference is looked up before the index holds every type name.
C4_OncePerType ==
    /\ [][mode' = mode => (StepsLeft' < StepsLeft /\ StepsLeft' >= 0)]_vars
    /\ [](~Done => CanStep)
    /\ [](/\ earlyLookups = 0
          /\ \A n \in DOMAIN sortCalls : sortCalls[n] <= 1
          /\ pc \in {"directives", "construct", "done"} =>
                /\ IndexComplete
                /\ \A n \in DOMAIN sortCalls :
                      sortCalls[n] = IF n \in InputNames THEN 1 ELSE 0)

\* A call has returned for a schema in which b refers to c, c to b, b to
\* itself, the input object I to itself and the interface A to a.
C4_Witness ==
    /\ Done
    /\ mode = "first"
    /\ TypeId("c") \in RefsOf(heap[TypeId("b")])
    /\ TypeId("b") \in RefsOf(heap[TypeId("c")])
    /\ TypeId("b") \in RefsOf(heap[TypeId("b")])
    /\ TypeId("I") \in RefsOf(heap[TypeId("I")])
    /\ Get(typeMap, "c") \in RefsOf(heap[Get(typeMap, "b")])
    /\ Get(typeMap, "b") \in RefsOf(heap[Get(typeMap, "c")])
    /\ \A n \in InputNames : sortCalls[n] = 1

----------------------------------------------------------------------------
(* C6: a reference to a type the index does not hold.                      *)

\* Some reference of the input names a type that its type list lacks.
DanglingInput ==
    \E ref \in UNION {RefsOf(heap[id]) : id \in Range(schema.types)}
               \cup UNION {DirectiveRefs(schema.directives[i]) : i \in 1..Len(schema.directives)}
               \cup ({schema.query, schema.mutation, schema.subscription} \ {Undefined}) :
       heap[ref].name \notin InputNames

\* C6: a call on an input with such a reference does not return, and no
\* configuration is built in which a root, a field or a union member is
\* undefined.
C6_AbsentTypeAborts ==
    DanglingInput =>
       /\ ~Done
       /\ pc = "construct" =>
             \A root \in {"query", "mutation", "subscription"} :
                schema[root] # Undefined => result[root] # Undefined

====
